---- MODULE Spec2Model ----
(***************************************************************************)
(* A model of lhotse/features/whisper_fbank.py: the log-mel spectrogram    *)
(* engine (log_mel_spectrogram), the configuration record                  *)
(* (WhisperFbankConfig) and the feature extractor (WhisperFbank).          *)
(*                                                                         *)
(* Numbers.  Samples are integers.  The Hann window is carried doubled, so *)
(* STFT power and mel energy are integers in units of 1/4.  log10 is taken *)
(* to its integer part.  Log-domain feature values are integers in units   *)
(* of 1/1000 (FeatUnit), so the engine's (x + 4.0) / 4.0 is 250 * (x + 4). *)
(* Linear energies in mix are integers in units of 1/1000, rounded to the  *)
(* nearest unit the way a floating-point result is rounded to its format.  *)
(***************************************************************************)
EXTENDS Integers, Sequences, FiniteSets, TLC

VARIABLES adapter, config, init_config, pc, call, result,
          eng_pc, eng_in, eng_out,
          mix_pc, mix_in, mix_out

vars == <<adapter, config, init_config, pc, call, result,
          eng_pc, eng_in, eng_out, mix_pc, mix_in, mix_out>>

adapterVars == <<adapter, config, init_config, pc, call, result>>
engVars == <<eng_pc, eng_in, eng_out>>
mixVars == <<mix_pc, mix_in, mix_out>>

(***************************************************************************)
(* Bounds and input sets.                                                  *)
(***************************************************************************)
\* longest waveform drawn as an input
MaxLen == 3

\* sample values: silence, a quiet sample, a loud sample
SampleValues == {0, 1, 40}

\* two-valued samples for the calls made through the adapter
AdapterSampleValues == {0, 40}

\* Python's None
PyNone == "<None>"

Devices == {"cpu", "cuda"}

WaveformsOver(S, n) == UNION {[1..k -> S] : k \in 0..n}

(***************************************************************************)
(* Generic helpers on sequences and matrices (a matrix is a sequence of    *)
(* rows).                                                                  *)
(***************************************************************************)
RECURSIVE SumSeq(_)
SumSeq(s) == IF s = <<>> THEN 0 ELSE Head(s) + SumSeq(Tail(s))

Max2(a, b) == IF a >= b THEN a ELSE b

Rows(m) == Len(m)

Cols(m) == IF Len(m) = 0 THEN 0 ELSE Len(m[1])

Shape(m) == <<Rows(m), Cols(m)>>

Elements(m) == {m[i][j] : i \in 1..Rows(m), j \in 1..Cols(m)}

SetMax(S) == CHOOSE x \in S : \A y \in S : y <= x

\* a value raised by the code: no value, the exception's type
Raise(e) == [ok |-> FALSE, error |-> e, value |-> <<>>]

Ok(v) == [ok |-> TRUE, error |-> "", value |-> v]

(***************************************************************************)
(* Names bound at module level when log_mel_spectrogram runs: the imports  *)
(* of lines 1-14 and the module's own definitions.  torch.nn.functional is *)
(* never imported, under any name.                                         *)
(***************************************************************************)
ModuleNames ==
    {"dataclass", "Any", "Dict", "Optional", "Union", "np", "librosa", "torch",
     "FeatureExtractor", "register_extractor", "EPSILON", "Seconds",
     "asdict_nonull", "log_mel_spectrogram", "WhisperFbankConfig",
     "WhisperFbank"}

(***************************************************************************)
(* The spectrogram engine, log_mel_spectrogram.  A tensor is              *)
(* [ok, error, value, dev]: its data and the device it lives on.           *)
(***************************************************************************)
Tensor(v, d) == [ok |-> TRUE, error |-> "", value |-> v, dev |-> d]

Fail(e) == [ok |-> FALSE, error |-> e, value |-> <<>>, dev |-> PyNone]

Zeros(n) == [i \in 1..n |-> 0]

\* F.pad(audio, (0, padding)): the name F is looked up in the module
PadRight(data, padding) ==
    IF "F" \in ModuleNames
    THEN Ok(data \o Zeros(padding))
    ELSE Raise("NameError")

\* torch.hann_window(n_fft) (periodic), doubled: 1 - cos(2 pi n / n_fft)
HannWindow2(n_fft) ==
    CASE n_fft = 2 -> <<0, 2>>
      [] n_fft = 4 -> <<0, 1, 2, 1>>

\* torch.stft's centring: reflect p samples on each side (needs p < Len)
ReflectPad(x, p) ==
    LET L == Len(x) IN
    [i \in 1..(L + 2 * p) |->
        IF i <= p THEN x[p + 2 - i]
        ELSE IF i <= p + L THEN x[i - p]
        ELSE x[2 * L + p - i]]

\* the 4th roots of unity, exp(-2 pi i j / 4), as <<re, im>>
Root4(j) ==
    CASE j % 4 = 0 -> <<1, 0>>
      [] j % 4 = 1 -> <<0, -1>>
      [] j % 4 = 2 -> <<-1, 0>>
      [] j % 4 = 3 -> <<0, 1>>

\* bin k of the DFT of the frame y, for Len(y) dividing 4
Dft(y, k) ==
    LET N == Len(y)
        term(n) == Root4((4 \div N) * k * (n - 1))
    IN <<SumSeq([n \in 1..N |-> y[n] * term(n)[1]]),
         SumSeq([n \in 1..N |-> y[n] * term(n)[2]])>>

\* number of time steps torch.stft returns for a waveform of L samples
StftNumFrames(L, n_fft, hop_length) == 1 + L \div hop_length

\* torch.stft(audio, n_fft, hop_length, window, return_complex=True):
\* a (n_fft/2 + 1) x frames matrix of complex values (doubled)
Stft(data, n_fft, hop_length) ==
    IF Len(data) <= n_fft \div 2
    THEN Raise("RuntimeError")
    ELSE LET padded == ReflectPad(data, n_fft \div 2)
             w == HannWindow2(n_fft)
             frame(t) == [n \in 1..n_fft |->
                             padded[(t - 1) * hop_length + n] * w[n]]
         IN Ok([k \in 1..(n_fft \div 2 + 1) |->
                  [t \in 1..StftNumFrames(Len(data), n_fft, hop_length) |->
                      Dft(frame(t), k - 1)]])

\* the power of every time step, the last one kept
MagnitudesKeepLast(stft) ==
    [k \in 1..Rows(stft) |->
        [t \in 1..Cols(stft) |->
            stft[k][t][1] * stft[k][t][1] + stft[k][t][2] * stft[k][t][2]]]

\* stft[..., :-1].abs() ** 2, in units of 1/4
Magnitudes(stft) ==
    [k \in 1..Rows(stft) |->
        [t \in 1..(Cols(stft) - 1) |->
            stft[k][t][1] * stft[k][t][1] + stft[k][t][2] * stft[k][t][2]]]

\* librosa.filters.mel(sr, n_fft, n_mels): n_mels x (n_fft/2 + 1) weights,
\* none negative; each FFT bin feeds one band
MelFilters(sampling_rate, n_fft, n_mels) ==
    [m \in 1..n_mels |->
        [k \in 1..(n_fft \div 2 + 1) |->
            IF (k - 1) % n_mels = m - 1 THEN 1 ELSE 0]]

\* filters @ magnitudes
MatMul(a, b) ==
    [i \in 1..Rows(a) |->
        [j \in 1..Cols(b) |->
            SumSeq([k \in 1..Cols(a) |-> a[i][k] * b[k][j]])]]

RECURSIVE ILog10(_)
\* integer part of log10(n), n >= 1
ILog10(n) == IF n < 10 THEN 0 ELSE 1 + ILog10(n \div 10)

\* what log10 gives for 0: minus infinity
NegInf == -1000000

IsFinite(x) == x > NegInf \div 2

\* log10 of an energy e4 / 4, to its integer part
Log10Quarter(e4) ==
    IF e4 <= 0 THEN NegInf
    ELSE IF e4 >= 4 THEN ILog10(e4 \div 4) ELSE -1

\* torch.clamp(mel_spec, min=1e-10).log10(): below the floor the value
\* is log10(1e-10)
ClampLog10(e4) == IF e4 < 1 THEN -10 ELSE Log10Quarter(e4)

\* log_spec.max(): the one maximum of the whole matrix
GlobalMax(m) == SetMax(Elements(m))

\* the maximum of frame t alone
PerFrameMax(m, t) == SetMax({m[i][t] : i \in 1..Rows(m)})

\* the value each element of frame t is clamped against
ClampReference(m, t) == GlobalMax(m)

\* torch.maximum(log_spec, log_spec.max() - 8.0)
LimitRange(m) ==
    [i \in 1..Rows(m) |->
        [t \in 1..Cols(m) |-> Max2(m[i][t], ClampReference(m, t) - 8)]]

\* (log_spec + 4.0) / 4.0, in units of 1/1000
Affine(x) == 250 * (x + 4)

\* lines 49-58: the waveform as a tensor, moved, padded, transformed
EngineAudio(audio, n_fft, hop_length, padding, device) ==
    LET dev == IF device # PyNone THEN device ELSE audio.dev
        padded == IF padding > 0 THEN PadRight(audio.data, padding)
                  ELSE Ok(audio.data)
    IN IF ~padded.ok THEN Fail(padded.error)
       ELSE LET stft == Stft(padded.value, n_fft, hop_length)
            IN IF ~stft.ok THEN Fail(stft.error)
               ELSE Tensor(Magnitudes(stft.value), dev)

\* lines 60-61: the filterbank, built on the host and moved with .to(device)
EngineFilters(sampling_rate, n_fft, n_mels, device) ==
    Tensor(MelFilters(sampling_rate, n_fft, n_mels),
           IF device # PyNone THEN device ELSE "cpu")

\* lines 62-65: mel projection, log compression, range limit
EngineLogSpec(filters, magnitudes) ==
    IF filters.dev # magnitudes.dev THEN Fail("RuntimeError")
    ELSE IF Cols(magnitudes.value) = 0 THEN Fail("RuntimeError")
    ELSE LET mel_spec == MatMul(filters.value, magnitudes.value)
             log_spec == [i \in 1..Rows(mel_spec) |->
                            [t \in 1..Cols(mel_spec) |->
                                ClampLog10(mel_spec[i][t])]]
         IN Tensor(LimitRange(log_spec), magnitudes.dev)

\* lines 66-67
EngineNormalize(log_spec) ==
    IF ~log_spec.ok THEN log_spec
    ELSE Tensor([i \in 1..Rows(log_spec.value) |->
                    [t \in 1..Cols(log_spec.value) |->
                        Affine(log_spec.value[i][t])]],
                log_spec.dev)

\* log_spec just before the final affine step
LogMelPreAffine(audio, n_mels, n_fft, hop_length, sampling_rate, padding, device) ==
    LET mags == EngineAudio(audio, n_fft, hop_length, padding, device)
    IN IF ~mags.ok THEN mags
       ELSE EngineLogSpec(EngineFilters(sampling_rate, n_fft, n_mels, device), mags)

\* log_mel_spectrogram(audio, n_mels, n_fft, hop_length, sampling_rate,
\*                     padding, device)
LogMelSpectrogram(audio, n_mels, n_fft, hop_length, sampling_rate, padding, device) ==
    EngineNormalize(
        LogMelPreAffine(audio, n_mels, n_fft, hop_length, sampling_rate,
                        padding, device))

\* torch.from_numpy / torch.is_tensor: what the engine computes on
AsTensor(samples) == [rep |-> "tensor", dev |-> samples.dev, data |-> samples.data]

(***************************************************************************)
(* WhisperFbankConfig.                                                     *)
(***************************************************************************)
FieldNames == {"sampling_rate", "num_filters", "hop_length", "n_fft", "device"}

\* the dataclass's field defaults
DefaultConfig ==
    [sampling_rate |-> 16000, num_filters |-> 80, hop_length |-> 160,
     n_fft |-> 400, device |-> "cpu"]

\* The integer fields always hold integers here: nothing assigns them after
\* construction.  Only the device field is ever None.
IsNoneField(c, f) == f = "device" /\ c[f] = PyNone

\* lhotse.utils.asdict_nonull: the fields as a mapping, None values left out
AsdictNonull(c) ==
    [f \in {g \in DOMAIN c : ~IsNoneField(c, g)} |-> c[f]]

\* WhisperFbankConfig.to_dict
ToDict(c) == AsdictNonull(c)

\* from_dict losing the device key
FromDictNoDevice(data) ==
    [f \in FieldNames |->
        IF f \in DOMAIN data /\ f # "device" THEN data[f] ELSE DefaultConfig[f]]

\* WhisperFbankConfig.from_dict: WhisperFbankConfig(**data), a missing
\* key takes the field's default
FromDict(data) ==
    [f \in FieldNames |-> IF f \in DOMAIN data THEN data[f] ELSE DefaultConfig[f]]

\* configurations an extractor is constructed with; config=None gives
\* WhisperFbankConfig()
ConstructorConfigs ==
    {DefaultConfig} \cup
    [sampling_rate : {8000, 16000}, num_filters : {1, 2}, hop_length : {1, 2},
     n_fft : {2, 4}, device : Devices \cup {PyNone}]

SamplingRates == {8000, 16000}

(***************************************************************************)
(* WhisperFbank.                                                           *)
(***************************************************************************)
\* __init__: config_dict = self.config.to_dict(); config_dict.pop("device")
InitOutcome(c) == IF "device" \in DOMAIN ToDict(c) THEN "ready" ELSE "KeyError"

\* the device property
Device(c) == c.device

\* frame_shift: hop_length / sampling_rate, as <<numerator, denominator>>
FrameShift(c) == <<c.hop_length, c.sampling_rate>>

\* feature_dim(sampling_rate)
FeatureDim(c, sampling_rate) == c.num_filters

\* to(device) replacing the configuration by a fresh one on the device
ToConfigFresh(c, device) == [DefaultConfig EXCEPT !.device = device]

\* to(device): self.config.device = device
ToConfig(c, device) == [c EXCEPT !.device = device]

\* extract without its check of the rate
RateAcceptedAlways(sampling_rate, c) == TRUE

\* the assert of extract
RateAccepted(sampling_rate, c) == sampling_rate = c.sampling_rate

\* is_numpy: not isinstance(samples, torch.Tensor)
IsNumpy(samples) == samples.rep # "tensor"

\* the keyword arguments of the call to log_mel_spectrogram, each read from
\* self.config when the call is made; the device through self.device
ExtractArgs(c) ==
    [n_mels |-> c.num_filters, n_fft |-> c.n_fft, hop_length |-> c.hop_length,
     sampling_rate |-> c.sampling_rate, device |-> Device(c)]

\* the device log_mel_spectrogram moves the waveform to: its parameter
AudioDevice(args, c) == args.device

\* the filterbank moved to the device the configuration holds at that moment
FiltersDeviceReread(args, c) == c.device

\* the device log_mel_spectrogram moves the filterbank to: its parameter
FiltersDevice(args, c) == args.device

\* extract returning feats as it is, whatever came in
ReturnValueTensor(is_numpy, feats) ==
    [kind |-> "value", rep |-> "tensor", dev |-> feats.dev,
     value |-> feats.value, error |-> ""]

\* what extract returns for feats: feats.cpu().numpy() or feats
ReturnValue(is_numpy, feats) ==
    IF is_numpy
    THEN [kind |-> "value", rep |-> "numpy", dev |-> "cpu",
          value |-> feats.value, error |-> ""]
    ELSE [kind |-> "value", rep |-> "tensor", dev |-> feats.dev,
          value |-> feats.value, error |-> ""]

Raised(e) ==
    [kind |-> "raised", rep |-> "", dev |-> "", value |-> <<>>, error |-> e]

NoResult ==
    [kind |-> "none", rep |-> "", dev |-> "", value |-> <<>>, error |-> ""]

\* what extract is called with: a numpy array (host memory) or a tensor
ExtractInputs ==
    [rep : {"numpy"}, dev : {"cpu"},
     data : WaveformsOver(AdapterSampleValues, MaxLen)]
    \cup
    [rep : {"tensor"}, dev : Devices,
     data : WaveformsOver(AdapterSampleValues, MaxLen)]

NoTensor == Fail("")

NoArgs ==
    [n_mels |-> 0, n_fft |-> 0, hop_length |-> 0, sampling_rate |-> 0,
     device |-> PyNone]

\* the frame of one extract call: its arguments, its locals, and what the
\* configuration's device field held while it ran
NewCall(samples, sampling_rate, c) ==
    [input |-> samples, samples |-> samples, sampling_rate |-> sampling_rate,
     is_numpy |-> FALSE, args |-> NoArgs, engine_invoked |-> FALSE,
     device_reads |-> 0, audio_to |-> PyNone, filters_to |-> PyNone,
     audio |-> NoTensor, filters |-> NoTensor, feats |-> NoTensor,
     held |-> {c.device}]

NoCall ==
    [input |-> [rep |-> "numpy", dev |-> "cpu", data |-> <<>>],
     samples |-> [rep |-> "numpy", dev |-> "cpu", data |-> <<>>],
     sampling_rate |-> 0,
     is_numpy |-> FALSE, args |-> NoArgs, engine_invoked |-> FALSE,
     device_reads |-> 0, audio_to |-> PyNone, filters_to |-> PyNone,
     audio |-> NoTensor, filters |-> NoTensor, feats |-> NoTensor,
     held |-> {}]

InFlight == pc # "idle"

(***************************************************************************)
(* Actions of the extractor.  to(device) may run between any two steps of  *)
(* an extract call on the same extractor.                                  *)
(***************************************************************************)
\* WhisperFbank(config)
Construct ==
    /\ adapter = "new"
    /\ adapter' = InitOutcome(config)
    /\ UNCHANGED <<config, init_config, pc, call, result>>
    /\ UNCHANGED <<engVars, mixVars>>

\* to(device)
To(device) ==
    /\ adapter = "ready"
    /\ config' = ToConfig(config, device)
    /\ call' = IF InFlight
               THEN [call EXCEPT !.held = call.held \cup {device}]
               ELSE call
    /\ UNCHANGED <<adapter, init_config, pc, result>>
    /\ UNCHANGED <<engVars, mixVars>>

\* extract(samples, sampling_rate) is entered
CallExtract(samples, sampling_rate) ==
    /\ adapter = "ready"
    /\ pc = "idle"
    /\ pc' = "check"
    /\ call' = NewCall(samples, sampling_rate, config)
    /\ result' = NoResult
    /\ UNCHANGED <<adapter, config, init_config>>
    /\ UNCHANGED <<engVars, mixVars>>

\* lines 112-117
CheckRate ==
    /\ pc = "check"
    /\ IF RateAccepted(call.sampling_rate, config)
       THEN pc' = "convert" /\ result' = result
       ELSE pc' = "done" /\ result' = Raised("AssertionError")
    /\ UNCHANGED <<adapter, config, init_config, call>>
    /\ UNCHANGED <<engVars, mixVars>>

\* lines 119-122
Convert ==
    /\ pc = "convert"
    /\ call' = [call EXCEPT !.is_numpy = IsNumpy(call.samples),
                            !.samples = AsTensor(call.samples)]
    /\ pc' = "args"
    /\ UNCHANGED <<adapter, config, init_config, result>>
    /\ UNCHANGED <<engVars, mixVars>>

\* lines 124-131: the arguments are evaluated and the engine is entered
ReadArgs ==
    /\ pc = "args"
    /\ call' = [call EXCEPT !.args = ExtractArgs(config),
                            !.engine_invoked = TRUE,
                            !.device_reads = call.device_reads + 1]
    /\ pc' = "audio"
    /\ UNCHANGED <<adapter, config, init_config, result>>
    /\ UNCHANGED <<engVars, mixVars>>

\* engine lines 49-58 (padding keeps its default, 0)
EngineAudioStep ==
    /\ pc = "audio"
    /\ LET dev == AudioDevice(call.args, config)
           a == EngineAudio(call.samples, call.args.n_fft,
                            call.args.hop_length, 0, dev)
       IN /\ call' = [call EXCEPT !.audio = a, !.audio_to = dev]
          /\ IF a.ok
             THEN pc' = "filters" /\ result' = result
             ELSE pc' = "done" /\ result' = Raised(a.error)
    /\ UNCHANGED <<adapter, config, init_config>>
    /\ UNCHANGED <<engVars, mixVars>>

\* engine lines 60-61
EngineFiltersStep ==
    /\ pc = "filters"
    /\ LET dev == FiltersDevice(call.args, config)
       IN call' = [call EXCEPT
                     !.filters = EngineFilters(call.args.sampling_rate,
                                               call.args.n_fft,
                                               call.args.n_mels, dev),
                     !.filters_to = dev]
    /\ pc' = "matmul"
    /\ UNCHANGED <<adapter, config, init_config, result>>
    /\ UNCHANGED <<engVars, mixVars>>

\* engine lines 62-67
EngineComputeStep ==
    /\ pc = "matmul"
    /\ LET f == EngineNormalize(EngineLogSpec(call.filters, call.audio))
       IN /\ call' = [call EXCEPT !.feats = f]
          /\ IF f.ok
             THEN pc' = "return" /\ result' = result
             ELSE pc' = "done" /\ result' = Raised(f.error)
    /\ UNCHANGED <<adapter, config, init_config>>
    /\ UNCHANGED <<engVars, mixVars>>

\* lines 133-136
Return ==
    /\ pc = "return"
    /\ result' = ReturnValue(call.is_numpy, call.feats)
    /\ pc' = "done"
    /\ UNCHANGED <<adapter, config, init_config, call>>
    /\ UNCHANGED <<engVars, mixVars>>

\* the caller is done with what extract returned or raised
Discard ==
    /\ pc = "done"
    /\ pc' = "idle"
    /\ call' = NoCall
    /\ result' = NoResult
    /\ UNCHANGED <<adapter, config, init_config>>
    /\ UNCHANGED <<engVars, mixVars>>

NoEngineOut == [log_spec |-> NoTensor, feats |-> NoTensor]

EngIdle == [audio |-> [rep |-> "numpy", dev |-> "cpu", data |-> <<>>],
            n_mels |-> 1, n_fft |-> 2, hop_length |-> 1,
            sampling_rate |-> 16000, padding |-> 0, device |-> PyNone]

MixIdle == [a |-> <<>>, b |-> <<>>, k |-> 0]

Init ==
    /\ adapter = "new"
    /\ config \in ConstructorConfigs
    /\ init_config = config
    /\ pc = "idle"
    /\ call = NoCall
    /\ result = NoResult
    /\ eng_pc = "off" /\ eng_in = EngIdle /\ eng_out = NoEngineOut
    /\ mix_pc = "off" /\ mix_in = MixIdle /\ mix_out = Raise("")

Next ==
    \/ Construct
    \/ \E d \in Devices \cup {PyNone} : To(d)
    \/ \E s \in ExtractInputs, r \in SamplingRates : CallExtract(s, r)
    \/ CheckRate
    \/ Convert
    \/ ReadArgs
    \/ EngineAudioStep
    \/ EngineFiltersStep
    \/ EngineComputeStep
    \/ Return
    \/ Discard

Spec == Init /\ [][Next]_vars

(***************************************************************************)
(* Properties of the extractor, checked under Spec.                        *)
(***************************************************************************)
\* every field but the device is as constructed, and the device is one the
\* configuration was given while the call ran
ConfigOnlyRetargeted ==
    /\ \A f \in FieldNames \ {"device"} : config[f] = init_config[f]
    /\ config.device \in call.held

\* C1: an extract call whose sampling_rate differs from the configured one
\* raises AssertionError before anything is computed: nothing is returned,
\* the engine is not entered, the configuration is not touched; a call with
\* the configured rate is not stopped by this check.
C1_RateMismatchRaises ==
    pc \notin {"idle", "check"} =>
        IF call.sampling_rate # config.sampling_rate
        THEN /\ pc = "done"
             /\ result = Raised("AssertionError")
             /\ ~call.engine_invoked
             /\ call.device_reads = 0
             /\ call.audio = NoTensor /\ call.feats = NoTensor
             /\ ConfigOnlyRetargeted
        ELSE result.error # "AssertionError"

C1_Witness ==
    /\ pc = "done"
    /\ call.sampling_rate # config.sampling_rate
    /\ result.error = "AssertionError"

\* C2: whatever the configured device, a call that returns gives back the
\* representation it was given (numpy in, numpy out; tensor in, tensor out)
\* holding the values the engine computes for that waveform.
C2_RepresentationMirrored ==
    (pc = "done" /\ result.kind = "value") =>
        LET e == LogMelSpectrogram(call.input, call.args.n_mels, call.args.n_fft,
                                   call.args.hop_length, call.args.sampling_rate,
                                   0, call.args.device)
        IN /\ result.rep = call.input.rep
           /\ e.ok
           /\ result.value = e.value

C2_Witness ==
    /\ pc = "done"
    /\ result.kind = "value"
    /\ call.input.rep = "numpy"
    /\ result.rep = "numpy"
    /\ call.args.device = "cuda"
    /\ Cols(result.value) >= 2

\* the state part of C6
C6_FieldsKept ==
    adapter = "ready" =>
        /\ \A f \in FieldNames \ {"device"} : config[f] = init_config[f]
        /\ \A sr \in SamplingRates \cup {0} :
              FeatureDim(config, sr) = init_config.num_filters
        /\ FrameShift(config) = <<init_config.hop_length, init_config.sampling_rate>>
        /\ (call.engine_invoked /\ call.held = {config.device})
              => call.args.device = config.device

\* C6: to(device) changes the device field and nothing else: the other
\* fields keep their constructed values (feature_dim is num_filters for
\* every rate, frame_shift is hop_length / sampling_rate), a matrix already
\* returned is left as it is, and a call started after it uses the new device.
C6_ToChangesOnlyDevice ==
    /\ []C6_FieldsKept
    /\ [][config' # config => (result' = result /\ call'.feats = call.feats)]_vars

C6_Witness ==
    /\ pc = "done"
    /\ result.kind = "value"
    /\ config.device # init_config.device
    /\ call.held = {config.device}
    /\ call.args.device = config.device

\* C7 as stated: every configuration the extractor can hold, a None device
\* included, survives to_dict followed by from_dict.
C7_RoundTrip ==
    adapter = "ready" => FromDict(ToDict(config)) = config

\* C7 as amended: a configuration with no None field survives the round trip;
\* a None device is left out by to_dict and comes back as the default, "cpu".
C7_RoundTripNonNull ==
    adapter = "ready" =>
        /\ config.device # PyNone => FromDict(ToDict(config)) = config
        /\ config.device = PyNone =>
              /\ "device" \notin DOMAIN ToDict(config)
              /\ FromDict(ToDict(config)) = [config EXCEPT !.device = "cpu"]

C7_Witness ==
    /\ adapter = "ready"
    /\ config.device = "cuda"
    /\ init_config.device = "cpu"
    /\ config.num_filters # DefaultConfig.num_filters

\* C10: with to(device) running between the steps of an extract call, the
\* call reads the device field once, moves the waveform and the filterbank
\* to that one device, and that device is a value the field held during
\* the call.
C10_OneDevicePerCall ==
    (pc \in {"matmul", "return", "done"} /\ call.filters.ok) =>
        /\ call.device_reads = 1
        /\ call.audio_to = call.args.device
        /\ call.filters_to = call.args.device
        /\ call.args.device \in call.held

C10_Witness ==
    /\ pc = "matmul"
    /\ Cardinality(call.held) >= 2
    /\ config.device # call.args.device
    /\ call.filters_to = call.audio_to

(***************************************************************************)
(* log_mel_spectrogram called on its own: SpecEngine draws the arguments   *)
(* and applies the function.                                               *)
(***************************************************************************)
NMels == {1, 2}

EngineAudios ==
    [rep : {"numpy"}, dev : {"cpu"}, data : WaveformsOver(SampleValues, MaxLen)]
    \cup
    [rep : {"tensor"}, dev : Devices, data : WaveformsOver(SampleValues, MaxLen)]

EngineInputs ==
    [audio : EngineAudios, n_mels : NMels, n_fft : {2, 4}, hop_length : {1, 2},
     sampling_rate : {16000}, padding : {0, 1, 2},
     device : Devices \cup {PyNone}]

\* log_mel_spectrogram applied to the arguments a
ApplyEngine(a) ==
    LET pre == LogMelPreAffine(a.audio, a.n_mels, a.n_fft, a.hop_length,
                               a.sampling_rate, a.padding, a.device)
    IN [log_spec |-> pre, feats |-> EngineNormalize(pre)]

EngineCall ==
    /\ eng_pc = "ready"
    /\ eng_out' = ApplyEngine(eng_in)
    /\ eng_pc' = "done"
    /\ UNCHANGED <<eng_in, adapterVars, mixVars>>

InitEngine ==
    /\ adapter = "new"
    /\ config = DefaultConfig
    /\ init_config = config
    /\ pc = "idle"
    /\ call = NoCall
    /\ result = NoResult
    /\ eng_pc = "ready" /\ eng_in \in EngineInputs /\ eng_out = NoEngineOut
    /\ mix_pc = "off" /\ mix_in = MixIdle /\ mix_out = Raise("")

NextEngine == EngineCall

SpecEngine == InitEngine /\ [][NextEngine]_vars

\* the waveform the call is about, its padding written out
ExtendedAudio(a) == [a.audio EXCEPT !.data = a.audio.data \o Zeros(a.padding)]

\* C3: with padding > 0 the engine completes and returns what it returns
\* for padding = 0 on the waveform extended by that many zeros.
C3_PaddingAppendsZeros ==
    (eng_pc = "done" /\ eng_in.padding > 0) =>
        LET e == LogMelSpectrogram(ExtendedAudio(eng_in), eng_in.n_mels,
                                   eng_in.n_fft, eng_in.hop_length,
                                   eng_in.sampling_rate, 0, eng_in.device)
        IN e.ok => eng_out.feats = e

C9_GlobalDynamicRange ==
    (eng_pc = "done" /\ eng_out.feats.ok) =>
        LET pre == Elements(eng_out.log_spec.value)
            out == Elements(eng_out.feats.value)
        IN /\ \A x \in pre : x >= SetMax(pre) - 8 /\ IsFinite(x)
           /\ \A y \in out : /\ y >= SetMax(out) - 2000
                             /\ y >= -1500
                             /\ IsFinite(y)
           /\ (\A i \in DOMAIN eng_in.audio.data : eng_in.audio.data[i] = 0)
                 => out = {-1500}

C9_Witness ==
    /\ eng_pc = "done"
    /\ eng_out.feats.ok
    /\ Cols(eng_out.feats.value) >= 2
    /\ LET pre == Elements(eng_out.log_spec.value)
       IN /\ SetMax(pre) - 8 \in pre
          /\ SetMax(pre) - 8 > -10
          /\ Cardinality(pre) >= 3

(***************************************************************************)
(* WhisperFbank.mix.  np.exp and np.log give results rounded to the        *)
(* floating-point format; here the format keeps three decimals: an energy  *)
(* is an integer number of 1/1000, and so is a logarithm.  The arithmetic  *)
(* inside exp and log is carried at 1/1000000.                             *)
(***************************************************************************)
\* ln 2, in units of 1/1000000
Ln2Micro == 693147

\* a / b rounded to the nearest integer, b > 0
RoundDiv(a, b) == (2 * a + b) \div (2 * b)

\* a * b for a, b in units of 1/1000000, without leaving 32 bits
MulMicro(a, b) == (a * (b \div 1000)) \div 1000 + (a * (b % 1000)) \div 1000000

\* a / b in units of 1/1000000, for 0 <= a < b
DivMicro(a, b) ==
    LET q1 == (a * 100) \div b
        r1 == (a * 100) % b
        q2 == (r1 * 100) \div b
        r2 == (r1 * 100) % b
        q3 == (r2 * 100) \div b
    IN q1 * 10000 + q2 * 100 + q3

RECURSIVE Pow2(_)
Pow2(n) == IF n = 0 THEN 1 ELSE 2 * Pow2(n - 1)

RECURSIVE ExpSeries(_, _, _)
\* sum of r^j / j! for j >= i, given the term before it, in 1/1000000
ExpSeries(r, term, i) ==
    IF i > 12 THEN 0
    ELSE LET t == MulMicro(term, r) \div i
         IN t + ExpSeries(r, t, i + 1)

\* np.exp of a value v / 1000: the energy, rounded to 1/1000
ExpMilli(v) ==
    LET v6 == v * 1000
        n == v6 \div Ln2Micro
        r == v6 - n * Ln2Micro
        s == 1000000 + ExpSeries(r, 1000000, 1)
        e6 == IF n >= 0 THEN s * Pow2(n)
              ELSE IF n < -30 THEN 0
              ELSE s \div Pow2(-n)
    IN RoundDiv(e6, 1000)

RECURSIVE Normalize(_, _)
\* <<n, m>> with m * 2^n the argument and m in [1, 2), m in 1/1000000
Normalize(m, n) ==
    IF m >= 2000000 THEN Normalize(m \div 2, n + 1)
    ELSE IF m < 1000000 THEN Normalize(m * 2, n - 1)
    ELSE <<n, m>>

RECURSIVE AtanhSeries(_, _, _)
\* sum of z^i / i for odd i up to 13, given p = z^i and z2 = z^2
AtanhSeries(p, z2, i) ==
    IF i > 13 THEN 0
    ELSE p \div i + AtanhSeries(MulMicro(p, z2), z2, i + 2)

\* np.log of an energy e / 1000 > 0, rounded to 1/1000
LnMilli(e) ==
    LET nm == Normalize(e * 1000, 0)
        z == DivMicro(nm[2] - 1000000, nm[2] + 1000000)
    IN RoundDiv(nm[1] * Ln2Micro + 2 * AtanhSeries(z, MulMicro(z, z), 1), 1000)

\* np.log(EPSILON), EPSILON = 1e-10, in units of 1/1000
LnEpsilonMilli == -23026

\* np.maximum(EPSILON, e): EPSILON is less than one unit of energy, so an
\* energy of at least one unit is kept and anything less becomes EPSILON
FloorApplies(e) == e < 1

\* the second signal's energy added as it is, the factor ignored
UnscaledEnergy(k, b) == ExpMilli(b)

\* energy_scaling_factor_b * np.exp(features_b)
ScaledEnergy(k, b) == k * ExpMilli(b)

\* one element of mix
MixElement(a, b, k) ==
    LET e == ExpMilli(a) + ScaledEnergy(k, b)
    IN IF FloorApplies(e) THEN LnEpsilonMilli ELSE LnMilli(e)

\* numpy broadcasting of two lengths of one axis
AxisCompatible(da, db) == da = db \/ da = 1 \/ db = 1

BroadcastAxis(da, db) == IF da = 1 THEN db ELSE da

\* the index an element of the result reads along an axis of length d
BroadcastIndex(i, d) == IF d = 1 THEN 1 ELSE i

\* mix(features_a, features_b, energy_scaling_factor_b)
Mix(a, b, k) ==
    IF ~(AxisCompatible(Rows(a), Rows(b)) /\ AxisCompatible(Cols(a), Cols(b)))
    THEN Raise("ValueError")
    ELSE Ok([i \in 1..BroadcastAxis(Rows(a), Rows(b)) |->
               [j \in 1..BroadcastAxis(Cols(a), Cols(b)) |->
                   MixElement(a[BroadcastIndex(i, Rows(a))][BroadcastIndex(j, Cols(a))],
                              b[BroadcastIndex(i, Rows(b))][BroadcastIndex(j, Cols(b))],
                              k)]])

\* every matrix the engine returns for the arguments drawn in SpecEngine
EngineOutputs ==
    {ApplyEngine(e).feats.value :
        e \in {x \in EngineInputs :
                  x.device = "cpu" /\ x.audio.rep = "numpy" /\ x.padding = 0
                  /\ ApplyEngine(x).feats.ok}}

\* matrices no engine call returns: entries whose exp is below EPSILON, and
\* shapes with an axis of length 1
OtherMatrices ==
    {<<<<-25000>>>>, <<<<-25000, 0>>, <<250, -25000>>>>,
     <<<<0, 1000>>>>, <<<<250>>, <<-1500>>>>, <<<<-1500, 1750, 0>>>>}

ScalingFactors == {0, 1, 2}

MixInputs ==
    UNION {[a : {m}, b : {m} \cup OtherMatrices, k : ScalingFactors] :
              m \in EngineOutputs \cup OtherMatrices}

MixCall ==
    /\ mix_pc = "ready"
    /\ mix_out' = Mix(mix_in.a, mix_in.b, mix_in.k)
    /\ mix_pc' = "done"
    /\ UNCHANGED <<mix_in, adapterVars, engVars>>

InitMix ==
    /\ adapter = "new"
    /\ config = DefaultConfig
    /\ init_config = config
    /\ pc = "idle"
    /\ call = NoCall
    /\ result = NoResult
    /\ eng_pc = "off" /\ eng_in = EngIdle /\ eng_out = NoEngineOut
    /\ mix_pc = "ready" /\ mix_in \in MixInputs /\ mix_out = Raise("")

NextMix == MixCall

SpecMix == InitMix /\ [][NextMix]_vars

\* a matrix as the engine returns them: no entry below -1.5
ValidFeatures(m) == \A x \in Elements(m) : x >= -1500

Abs(x) == IF x < 0 THEN -x ELSE x

\* C5: mix of two matrices of different shapes raises a shape error and
\* returns nothing; it never broadcasts one against the other.
C5_ShapeMismatchRaises ==
    (mix_pc = "done" /\ Shape(mix_in.a) # Shape(mix_in.b)
        /\ ValidFeatures(mix_in.a) /\ ValidFeatures(mix_in.b)) =>
        /\ ~mix_out.ok
        /\ mix_out.error = "ValueError"

\* C8 as stated: mix(a, a, 0.0) equals a element by element, for a valid a.
C8_MixSelfZeroExact ==
    (mix_pc = "done" /\ mix_in.a = mix_in.b /\ mix_in.k = 0
        /\ mix_in.a \in EngineOutputs /\ ValidFeatures(mix_in.a)) =>
        /\ mix_out.ok
        /\ mix_out.value = mix_in.a

\* C8 as amended: mix(a, a, 0.0) equals a within the rounding of exp and
\* log (0.003 here), for a valid a, and the EPSILON floor alters no element.
C8_MixSelfZeroWithinRounding ==
    (mix_pc = "done" /\ mix_in.a = mix_in.b /\ mix_in.k = 0
        /\ ValidFeatures(mix_in.a)) =>
        /\ mix_out.ok
        /\ Shape(mix_out.value) = Shape(mix_in.a)
        /\ \A i \in 1..Rows(mix_in.a), j \in 1..Cols(mix_in.a) :
              /\ Abs(mix_out.value[i][j] - mix_in.a[i][j]) <= 3
              /\ ~FloorApplies(ExpMilli(mix_in.a[i][j]))
              /\ mix_out.value[i][j] # LnEpsilonMilli

C8_Witness ==
    /\ mix_pc = "done"
    /\ mix_in.a = mix_in.b
    /\ mix_in.k = 0
    /\ mix_in.a \in EngineOutputs
    /\ Shape(mix_in.a) = <<2, 3>>
    /\ -1500 \in Elements(mix_in.a)
    /\ mix_out.ok

====
